---- MODULE Spec2Model ----
(***************************************************************************)
(* A model of flume_water_exporter.                                        *)
(*                                                                         *)
(* Two state machines are described.                                       *)
(*                                                                         *)
(*  Spec       the process of main.rs: the poller task of downloader.rs    *)
(*             (Downloader::start / fetch / login / devices / query), the  *)
(*             error channel of capacity one, the metrics server task of   *)
(*             exporter.rs and main's wait_for_error.                      *)
(*                                                                         *)
(*  FlumeSpec  the credential session of flume.rs (Flume), built by        *)
(*             flume_builder.rs, over the API client of client.rs.         *)
(*                                                                         *)
(* The session is used by a caller that starts its operations in any      *)
(* order, one after the other; the session's clock and the lifetime of a   *)
(* token are counted in the same unit.                                     *)
(*                                                                         *)
(* The poller's time is counted in units of 1800 s, so that the 3600 s and *)
(* 86400 s of downloader.rs are 2 and 48 units; a request of the poller,   *)
(* which ends within the client timeout (1 s by default), takes no time at *)
(* this resolution.  An Option<T> is a sequence of length at most one:     *)
(* <<>> is None and <<x>> is Some(x).  A panic of the poller task (unwrap  *)
(* on None, unreachable!) ends that task only: tokio keeps the process and *)
(* its other tasks running.                                                *)
(***************************************************************************)
EXTENDS Integers, Sequences, FiniteSets, TLC

\* ------------------------------------------------------------------ bounds

\* The poller starts this many ticks after the first, and none once its
\* clock is past this time.
MaxTime == 2
\* The clock of the credential session stops here.
MaxClock == 3

\* --------------------------------------------------------------- constants

\* Downloader::new: devices_last_update starts 86400 s before construction.
OneDay == 48
\* Downloader::devices: the inventory is stale after 3600 s.
OneHour == 2
\* Downloader.interval (Configuration::refresh_interval), the sleep of a tick.
Interval == 1
BRIDGE_ID == 1
SENSOR_ID == 2
\* main: mpsc::channel(1)
ChannelCapacity == 1
\* A configured device_interval (configuration.rs): 1800 s, one unit; the
\* default is 300 s.
DeviceInterval == 1

\* ------------------------------------------------------------------ Option

None == <<>>
Some(x) == <<x>>
IsNone(o) == o = <<>>
IsSome(o) == o # <<>>
Unwrap(o) == o[1]

\* ------------------------------------------------------- time and timezones

\* chrono_tz::Tz names the model knows; any other string fails to parse.
TzNames == {"UTC", "America/Los_Angeles"}

\* The offset of local wall-clock time from UTC, in units (-8 h = -16).
TzOffset(tz) == IF tz = "America/Los_Angeles" THEN 0 - 16 ELSE 0

\* An RFC3339 string is a wall-clock reading with its offset; rfc3339 tells
\* whether the string parses at all.
\* DateTime::parse_from_rfc3339: the instant the string denotes.
ParseRfc3339(s) == s.wall - s.off

\* DateTime::with_timezone: the same instant, carried with the zone.
WithTimezone(instant, tz) == [instant |-> instant, tz |-> tz]

\* DateTime<Tz>::format("%F %T"): the local wall-clock reading, without offset.
FormatUtc(dt) == dt.instant
FormatLocal(dt) == dt.instant + TzOffset(dt.tz)

\* The instant the upstream reads a since_datetime as: the API takes the
\* string as wall-clock time in the device's zone.
UpstreamInstant(wall, tz) == wall - TzOffset(tz)

\* ---------------------------------------------------------------- upstream

\* What a request can come back with.  send() fails ("transport"), the body
\* cannot be read ("body"), the body is not JSON ("garbage"), or it is a JSON
\* envelope with a success flag and, when array is TRUE, a data array.
FailedResponses ==
    {[kind |-> k] : k \in {"transport", "body", "garbage"}}

Envelope(success, array, data) ==
    [kind |-> "json", success |-> success, array |-> array, data |-> data]

\* Every envelope around one of the data arrays of `datas`, a well-formed
\* envelope without a data array, and the failures.
ResponsesWith(datas) ==
    FailedResponses
        \cup {Envelope(s, TRUE, d) : s \in BOOLEAN, d \in datas}
        \cup {Envelope(s, FALSE, <<>>) : s \in BOOLEAN}

\* An item of a data array that is none of the shapes a request expects.
OtherItem == [tag |-> "other"]

TokenValues == {"tokA", "tokB"}
\* The refresh token the upstream hands out with an access token.
RefreshOf(a) == IF a = "tokA" THEN "refA" ELSE "refB"
\* The lifetimes the upstream gives a token: none, or an hour.
ExpiresIns == {0, OneHour}
\* The upstream never issues the access token again that the client holds:
\* the first token it issues is tokA, and each later one differs from the
\* token held.
FreshTokens(held) ==
    IF IsNone(held) THEN {"tokA"} ELSE {a \in TokenValues : Some(a) # held}
TokenItems(held) ==
    {[tag |-> "token", access_token |-> a, refresh_token |-> RefreshOf(a),
      expires_in |-> e] : a \in FreshTokens(held), e \in ExpiresIns}
TokenResponses(held) ==
    ResponsesWith({<<>>, <<OtherItem>>} \cup {<<t>> : t \in TokenItems(held)})

UserIds == {7}
UserResponses ==
    ResponsesWith({<<>>, <<OtherItem>>} \cup {<<[tag |-> "user", id |-> u]>> : u \in UserIds})

SensorIds == {"s1", "s2"}
\* The name of the location a device is installed at.
LocationOf(id) == IF id = "s1" THEN "home" ELSE "cabin"
Locations == {LocationOf(id) : id \in SensorIds}

\* The zone of the location a device is installed at.
ZoneOf(id) == IF id = "s1" THEN "America/Los_Angeles" ELSE "UTC"

\* last_seen strings that parse: an hour before the start of the model in
\* UTC, and the start of the model written with an offset of -8 h.
LastSeenStrings ==
    { [rfc3339 |-> TRUE, wall |-> 0 - OneHour, off |-> 0],
      [rfc3339 |-> TRUE, wall |-> 0 - 16, off |-> 0 - 16] }
NotRfc3339 == [rfc3339 |-> FALSE, wall |-> 0, off |-> 0]

\* located tells whether the record has a location; tz is the zone of it.
WireSensor(id, last_seen, battery_level, tz) ==
    [tag |-> "device", type |-> SENSOR_ID, id |-> id, last_seen |-> last_seen,
     battery_level |-> battery_level, located |-> TRUE, tz |-> tz]

\* The sensors update_sensor accepts.
AnyLastSeen == CHOOSE l \in LastSeenStrings : TRUE
GoodSensors ==
    {WireSensor("s1", l, b, ZoneOf("s1")) :
        l \in LastSeenStrings, b \in {"high", "low"}}
      \cup {WireSensor("s2", AnyLastSeen, "high", ZoneOf("s2"))}
\* The sensors it does not: an unknown battery level, no location, a zone
\* chrono_tz does not know, a last-seen time that is no RFC3339 string.
BadSensors ==
    { WireSensor("s2", AnyLastSeen, "unknown", ZoneOf("s2")),
      [WireSensor("s2", AnyLastSeen, "high", "") EXCEPT !.located = FALSE],
      WireSensor("s2", AnyLastSeen, "high", "Mars/Phobos"),
      WireSensor("s2", NotRfc3339, "high", ZoneOf("s2")) }
WireBridge ==
    [tag |-> "device", type |-> BRIDGE_ID, id |-> "b1", last_seen |-> AnyLastSeen,
     battery_level |-> "", located |-> TRUE, tz |-> "UTC"]
WireUnknown == [WireBridge EXCEPT !.type = 3, !.id = "x1"]
WireDevices == GoodSensors \cup BadSensors \cup {WireBridge, WireUnknown, OtherItem}

\* The device lists of the upstream: at most two devices, no id twice.
DeviceId(d) == IF d.tag = "device" THEN d.id ELSE ""
DeviceLists ==
    {<<>>} \cup {<<d>> : d \in WireDevices}
           \cup {l \in {<<d, e>> : d \in WireDevices, e \in WireDevices} :
                     DeviceId(l[1]) # DeviceId(l[2])}
DeviceResponses == ResponsesWith(DeviceLists)

\* data[0] of a query response maps request ids to arrays of results; keyed
\* tells whether the id of the request is among them.  A result carries a
\* number as its value, or none.
Volumes == {1}
QueryResults == {<<>>} \cup {<<[value |-> Some(v)]>> : v \in Volumes}
                       \cup {<<[value |-> None]>>}
QueryItems ==
    {[tag |-> "query_results", keyed |-> k, results |-> r] :
        k \in BOOLEAN, r \in QueryResults}
QueryResponses == ResponsesWith({<<>>, <<OtherItem>>} \cup {<<q>> : q \in QueryItems})

\* ------------------------------------------------------------------- state

VARIABLES
    now,                  \* the clock (Instant::now, SystemTime::now)
    \* --- Downloader (downloader.rs)
    pc,                   \* where the poller task stands
    access_token,         \* Option<String>
    refresh_token,        \* Option<String>
    token_expires_at,     \* Option<Instant>
    user_id,              \* Option<i64>
    devices_last_update,  \* Instant
    sensors,              \* Option<Vec<Sensor>>
    qi,                   \* index of Downloader::query's loop over sensors
    usage,                \* USAGE counter, by location
    sensor_battery,       \* SENSOR_BATTERY gauge, by location (in hundredths)
    bridge_product,       \* BRIDGE_PRODUCT gauge, by location (in hundredths)
    \* --- main.rs, exporter.rs
    chan,                 \* the error channel: errors sent and not yet received
    main_pc,              \* "waiting" in wait_for_error, or "exited"
    exit_code,            \* Option<i32>: the status the process exited with
    exporter_pc,          \* "serving", or "done" once Server::run has failed
    \* --- history
    failure,              \* Option: the kind of failure the poller task met
    error_sent,           \* whether the poller task has sent its failure on chan
    fetched,              \* Option: the device list of the last inventory refresh
    queries,              \* by sensor id: Option, its last query that returned:
                          \* the window asked for, the volume counted, whether
                          \* it was the first since the inventory refresh
    queried,              \* the sensor ids queried since the last inventory refresh
    log,                  \* the requests the poller has issued in this tick, in order
    tick,                 \* the ticks started and completed, when the current
                          \* one was due and when it started
    envelope,             \* Option: the success flag of the JSON the last step
                          \* of the poller got back for its request
    \* --- Flume (flume.rs), its clock and its caller
    clock,                \* the clock of the session
    fpc,                  \* where the task that uses the session stands
    flume,                \* Option<Flume>: the credential once built
    inflight,             \* the requests sent and awaiting their response
    op,                   \* Option: the session operation last started
    checks,               \* the last staleness checks (at most 2)
    answer                \* Option: the response the client read last and
                          \* what its operation returned for it

dvars == <<now, pc, access_token, refresh_token, token_expires_at, user_id,
           devices_last_update, sensors, qi, usage, sensor_battery,
           bridge_product, chan,
           main_pc, exit_code, exporter_pc, failure, error_sent, fetched,
           queries, queried, log, tick, envelope>>

fvars == <<clock, fpc, flume, inflight, op, checks, answer>>
vars == <<dvars, fvars>>

\* Downloader::new and main before the tasks are spawned.
DInit ==
    /\ now = 0
    /\ pc = "login"
    /\ access_token = None
    /\ refresh_token = None
    /\ token_expires_at = None
    /\ user_id = None
    /\ devices_last_update = 0 - OneDay
    /\ sensors = None
    /\ qi = 1
    /\ usage = [l \in Locations |-> 0]
    /\ sensor_battery = [l \in Locations |-> None]
    /\ bridge_product = [l \in Locations |-> None]
    /\ chan = <<>>
    /\ main_pc = "waiting"
    /\ exit_code = None
    /\ exporter_pc = "serving"
    /\ failure = None
    /\ error_sent = FALSE
    /\ fetched = None
    /\ queries = [i \in SensorIds |-> None]
    /\ queried = {}
    /\ log = <<>>
    /\ tick = [started |-> 1, completed |-> 0, due |-> 0, started_at |-> 0]
    /\ envelope = None

\* main before FlumeBuilder::build.
FInit ==
    /\ clock = 0
    /\ fpc = "build"
    /\ flume = None
    /\ inflight = None
    /\ op = None
    /\ checks = <<>>
    /\ answer = None

Init == DInit /\ FInit

\* The process is alive: std::process::exit has not been called.
Running == main_pc = "waiting"

\* The time a request takes, at the resolution of the clock.
Latencies == {0}
\* The time the devices request takes: it can outlast the period between two
\* ticks when the configured timeout does.
DeviceLatencies == {0, OneHour}

creds == <<access_token, refresh_token, token_expires_at>>
inventory == <<devices_last_update, sensors, sensor_battery, bridge_product,
               fetched, queried>>
counters == <<usage, queries>>
process == <<chan, main_pc, exit_code, exporter_pc, error_sent>>

\* The log after a request of the poller has gone out: Downloader::post and
\* Downloader::get send one request and await its response.
Issued(request, sensor) ==
    Append(log, [request |-> request, sensor |-> sensor])

\* ------------------------------------------------- downloader.rs: requests

\* The label of a failed response: extract_body fails with a reqwest error
\* (send or body), deserialize with a serde_json error.
ErrorKind(resp) == IF resp.kind = "garbage" THEN "protocol" ELSE "transport"

\* The label of an envelope whose data is not what the request needs.
EnvelopeKind(resp) == IF resp.success THEN "shape" ELSE "application"

\* json_from (lines 514-525) returns the JSON whole: its "success" member,
\* which no caller reads; None when the request returned no JSON.
SuccessOf(resp) == IF resp.kind = "json" THEN Some(resp.success) ELSE None

\* json_from / extract_body / deserialize on a failed response: the error is
\* sent on the channel when the caller passed error_tx, the result is None,
\* and the unwrap of it (in json_from for a failed request or body, in the
\* caller for a failed deserialize) panics.
RequestFailed(resp, send_error) ==
    /\ failure' = Some(ErrorKind(resp))
    /\ pc' = IF send_error THEN "send_err" ELSE "panicked"

\* An unwrap on None or an unreachable!: the task panics, nothing is sent.
Panic(kind) ==
    /\ failure' = Some(kind)
    /\ pc' = "panicked"

\* json["data"][0] as a token: Some(item) when access_token, refresh_token
\* and expires_in can all be read, None when an unwrap of them panics.
TokenOf(resp) ==
    IF resp.array /\ Len(resp.data) > 0 /\ resp.data[1].tag = "token"
    THEN Some(resp.data[1]) ELSE None

\* json["data"][0]["id"].as_i64()
UserIdOf(resp) ==
    IF resp.array /\ Len(resp.data) > 0 /\ resp.data[1].tag = "user"
    THEN Some(resp.data[1].id) ELSE None

\* The credential the login keeps from a token item read at time t.
StoreToken(item, t) ==
    /\ access_token' = Some(item.access_token)
    /\ refresh_token' = Some(item.refresh_token)
    /\ token_expires_at' = Some(t + item.expires_in)

\* Downloader::fetch (lines 174-180): the step that follows each step of a
\* tick; start sleeps after the last (line 169).
StepAfterQueryFirst(step) ==
    CASE step = "login" -> "query"
      [] step = "query" -> "devices"
      [] step = "devices" -> "sleep"
StepAfter(step) ==
    CASE step = "login" -> "devices"
      [] step = "devices" -> "query"
      [] step = "query" -> "sleep"

\* Downloader::login, the password grant (lines 183-202).
LoginGrant ==
    /\ Running
    /\ UNCHANGED <<fvars, tick>>
    /\ pc = "login"
    /\ UNCHANGED <<user_id, inventory, qi, counters, process>>
    /\ IF IsSome(access_token)
       THEN /\ pc' = "login_refresh"
            /\ UNCHANGED <<now, creds, failure, log>>
            /\ envelope' = None
       ELSE \E resp \in TokenResponses(access_token), d \in Latencies :
            /\ now' = now + d
            /\ log' = Issued("grant", "")
            /\ envelope' = SuccessOf(resp)
            /\ IF resp.kind # "json"
               THEN RequestFailed(resp, TRUE) /\ UNCHANGED creds
               ELSE IF IsNone(TokenOf(resp))
               THEN Panic(EnvelopeKind(resp)) /\ UNCHANGED creds
               ELSE /\ StoreToken(Unwrap(TokenOf(resp)), now')
                    /\ pc' = "login_refresh"
                    /\ UNCHANGED failure

\* Instant::now() >= self.token_expires_at.unwrap() (line 204)
TokenExpired(t, expires_at) == t >= expires_at

\* Downloader::login, the refresh of an expired token (lines 204-222).
LoginRefresh ==
    /\ Running
    /\ UNCHANGED <<fvars, tick>>
    /\ pc = "login_refresh"
    /\ UNCHANGED <<user_id, inventory, qi, counters, process>>
    /\ IF ~TokenExpired(now, Unwrap(token_expires_at))
       THEN /\ pc' = "login_me"
            /\ UNCHANGED <<now, creds, failure, log>>
            /\ envelope' = None
       ELSE \E resp \in TokenResponses(access_token), d \in Latencies :
            /\ now' = now + d
            /\ log' = Issued("refresh", "")
            /\ envelope' = SuccessOf(resp)
            /\ IF resp.kind # "json"
               THEN RequestFailed(resp, TRUE) /\ UNCHANGED creds
               ELSE IF IsNone(TokenOf(resp))
               THEN Panic(EnvelopeKind(resp)) /\ UNCHANGED creds
               ELSE /\ StoreToken(Unwrap(TokenOf(resp)), now')
                    /\ pc' = "login_me"
                    /\ UNCHANGED failure

\* self.user_id.is_none() (line 224): the identity has to be fetched.
IdentityAlwaysMissing(uid) == TRUE
IdentityMissing(uid) == IsNone(uid)

\* Downloader::login, the identity (lines 224-228): the id is stored as the
\* Option as_i64 gives, without an unwrap.
LoginMe ==
    /\ Running
    /\ UNCHANGED <<fvars, tick>>
    /\ pc = "login_me"
    /\ UNCHANGED <<creds, inventory, qi, counters, process>>
    /\ IF ~IdentityMissing(user_id)
       THEN /\ pc' = StepAfter("login")
            /\ UNCHANGED <<now, user_id, failure, log>>
            /\ envelope' = None
       ELSE \E resp \in UserResponses, d \in Latencies :
            /\ now' = now + d
            /\ log' = Issued("me", "")
            /\ envelope' = SuccessOf(resp)
            /\ IF resp.kind # "json"
               THEN RequestFailed(resp, TRUE) /\ UNCHANGED user_id
               ELSE /\ user_id' = UserIdOf(resp)
                    /\ pc' = StepAfter("login")
                    /\ UNCHANGED failure

\* -------------------------------------------------- downloader.rs: devices

\* update_sensor's match on battery_level (lines 414-419): the gauge value in
\* hundredths, or None where the match arm is unreachable!.
BatteryGauge(battery_level) ==
    CASE battery_level = "high" -> Some(100)
      [] battery_level = "medium" -> Some(50)
      [] battery_level = "low" -> Some(25)
      [] OTHER -> None

\* update_sensor (lines 404-444) on a wire sensor, given the battery gauges:
\* whether it panics (and on what), the gauges after it, and the sensor.  The
\* battery level is matched and the location read before the gauges are set;
\* the timezone and the last-seen time are parsed after.
update_sensor(device, battery) ==
    LET location == LocationOf(device.id)
        set == [battery EXCEPT ![location] = BatteryGauge(device.battery_level)]
    IN  IF IsNone(BatteryGauge(device.battery_level))
        THEN [panic |-> TRUE, kind |-> "battery", battery |-> battery,
              bridge |-> None, sensor |-> None]
        ELSE IF ~device.located
        THEN [panic |-> TRUE, kind |-> "domain", battery |-> battery,
              bridge |-> None, sensor |-> None]
        ELSE IF device.tz \notin TzNames
        THEN [panic |-> TRUE, kind |-> "domain", battery |-> set,
              bridge |-> None, sensor |-> None]
        ELSE IF ~device.last_seen.rfc3339
        THEN [panic |-> TRUE, kind |-> "domain", battery |-> set,
              bridge |-> None, sensor |-> None]
        ELSE [panic |-> FALSE, kind |-> "", battery |-> set, bridge |-> None,
              sensor |-> Some([id |-> device.id, location |-> location,
                  last_update |->
                      WithTimezone(ParseRfc3339(device.last_seen), device.tz)])]

\* A bridge handled as a device that is kept: its gauges set, and a Sensor
\* returned for it.
StoreBridge(device, battery) ==
    [panic |-> FALSE, kind |-> "", battery |-> battery,
     bridge |-> Some(LocationOf(device.id)),
     sensor |-> Some([id |-> device.id, location |-> LocationOf(device.id),
         last_update |-> WithTimezone(ParseRfc3339(device.last_seen), device.tz)])]

\* update_bridge (lines 385-402): the bridge gauges of its location are set
\* and Device::Bridge is returned, which holds nothing to keep.
update_bridge(device, battery) ==
    [panic |-> FALSE, kind |-> "", battery |-> battery,
     bridge |-> Some(LocationOf(device.id)), sensor |-> None]

\* device (lines 375-383): by the type tag; a record without one panics in
\* as_u64().unwrap(), an unknown one in unreachable!.
device(dev, battery) ==
    IF dev.tag # "device"
    THEN [panic |-> TRUE, kind |-> "shape", battery |-> battery, bridge |-> None,
          sensor |-> None]
    ELSE IF dev.type = BRIDGE_ID THEN update_bridge(dev, battery)
    ELSE IF dev.type = SENSOR_ID THEN update_sensor(dev, battery)
    ELSE [panic |-> TRUE, kind |-> "device_type", battery |-> battery,
          bridge |-> None, sensor |-> None]

\* The BRIDGE_PRODUCT gauges after a device has been handled: set(1.0) at
\* the location of a bridge (lines 394-396).
BridgesAfter(bridges, r) ==
    IF IsSome(r.bridge) THEN [bridges EXCEPT ![Unwrap(r.bridge)] = Some(100)]
    ELSE bridges

\* .iter().map(device).filter_map(..).collect() (lines 242-251): the devices
\* in order from the i-th, keeping the sensors, until one panics.
RECURSIVE MapDevices(_, _, _, _, _)
MapDevices(data, i, battery, bridges, acc) ==
    IF i > Len(data)
    THEN [panic |-> FALSE, kind |-> "", battery |-> battery, bridges |-> bridges,
          sensors |-> acc]
    ELSE LET r == device(data[i], battery)
         IN  IF r.panic
             THEN [panic |-> TRUE, kind |-> r.kind, battery |-> r.battery,
                   bridges |-> bridges, sensors |-> acc]
             ELSE MapDevices(data, i + 1, r.battery, BridgesAfter(bridges, r),
                      IF IsSome(r.sensor) THEN Append(acc, Unwrap(r.sensor)) ELSE acc)

\* self.sensors = Some(.. collect()) (line 241): the new list replaces the old.
MergedSensors(old, listed) ==
    IF IsNone(old) THEN Some(listed)
    ELSE Some(listed \o SelectSeq(Unwrap(old),
                 LAMBDA s : \A i \in DOMAIN listed : listed[i].id # s.id))
NewSensors(old, listed) == Some(listed)

\* self.user_id.unwrap() (lines 237, 282), which builds the path of a devices
\* or query request, returns: it panics on None.
UnwrapsAlways(uid) == TRUE
Unwraps(uid) == IsSome(uid)

\* one_hour_ago >= self.devices_last_update (lines 232-236)
DevicesStale(t, last) == t - OneHour >= last

\* Downloader::devices (lines 231-256).
Devices ==
    /\ Running
    /\ UNCHANGED <<fvars, tick>>
    /\ pc = "devices"
    /\ UNCHANGED <<creds, user_id, counters, process>>
    /\ IF ~DevicesStale(now, devices_last_update)
       THEN /\ pc' = StepAfter("devices")
            /\ qi' = 1
            /\ UNCHANGED <<now, inventory, failure, log>>
            /\ envelope' = None
       ELSE IF ~Unwraps(user_id)
       THEN /\ Panic("shape")
            /\ UNCHANGED <<now, inventory, qi, log>>
            /\ envelope' = None
       ELSE \E resp \in DeviceResponses, d \in DeviceLatencies :
            /\ now' = now + d
            /\ log' = Issued("devices", "")
            /\ envelope' = SuccessOf(resp)
            /\ IF resp.kind # "json"
               THEN RequestFailed(resp, FALSE) /\ UNCHANGED <<inventory, qi>>
               ELSE IF ~resp.array
               THEN Panic(EnvelopeKind(resp)) /\ UNCHANGED <<inventory, qi>>
               ELSE LET r == MapDevices(resp.data, 1, sensor_battery,
                                        bridge_product, <<>>)
                    IN  /\ sensor_battery' = r.battery
                        /\ bridge_product' = r.bridges
                        /\ IF r.panic
                           THEN /\ Panic(r.kind)
                                /\ UNCHANGED <<devices_last_update, sensors,
                                               fetched, queried, qi>>
                           ELSE /\ sensors' = NewSensors(sensors, r.sensors)
                                /\ devices_last_update' = now'
                                /\ fetched' = Some(resp.data)
                                /\ queried' = {}
                                /\ pc' = StepAfter("devices")
                                /\ qi' = 1
                                /\ UNCHANGED failure

\* ---------------------------------------------------- downloader.rs: query

\* json["data"][0][since_time].as_array(): the results under the request id,
\* None when data[0] holds no array under it.
ResultsOf(resp) ==
    IF resp.array /\ Len(resp.data) > 0 /\ resp.data[1].tag = "query_results"
       /\ resp.data[1].keyed
    THEN Some(resp.data[1].results) ELSE None

\* Downloader::query's for loop (lines 260-262): the index of the sensor
\* queried after the sensor at index i.
EveryOtherSensor(i) == i + 2
NextSensor(i) == i + 1

\* The sensor after query_sensor has counted a value read at time t: the last
\* statement (line 298) reads sensor.last_update and assigns nothing.
SensorAfterQuery(sensor, t) == sensor

\* Downloader::query_sensor (lines 266-299) on the sensor the loop of
\* Downloader::query (lines 258-264) has reached.
QuerySensor ==
    /\ Running
    /\ UNCHANGED <<fvars, tick>>
    /\ pc = "query"
    /\ IsSome(sensors)
    /\ qi <= Len(Unwrap(sensors))
    /\ UNCHANGED <<creds, user_id, devices_last_update, sensor_battery,
                   bridge_product, fetched, process>>
    /\ LET sensor == Unwrap(sensors)[qi]
           since_time == FormatLocal(sensor.last_update)
           window(volume) ==
               [since |-> UpstreamInstant(since_time, sensor.last_update.tz),
                until |-> now, volume |-> volume,
                first |-> sensor.id \notin queried]
       IN  IF ~Unwraps(user_id)
           THEN /\ Panic("shape")
                /\ UNCHANGED <<now, sensors, qi, counters, queried, log>>
                /\ envelope' = None
           ELSE \E resp \in QueryResponses, d \in Latencies :
                /\ now' = now + d
                /\ log' = Issued("query", sensor.id)
                /\ envelope' = SuccessOf(resp)
                /\ queried' = queried \cup {sensor.id}
                /\ IF resp.kind # "json"
                   THEN /\ RequestFailed(resp, FALSE)
                        /\ UNCHANGED <<sensors, qi, counters>>
                   ELSE IF IsNone(ResultsOf(resp))
                   THEN /\ Panic(EnvelopeKind(resp))
                        /\ UNCHANGED <<sensors, qi, counters>>
                   ELSE IF Unwrap(ResultsOf(resp)) = <<>>
                   THEN /\ qi' = NextSensor(qi)
                        /\ queries' = [queries EXCEPT
                               ![sensor.id] = Some(window(0))]
                        /\ UNCHANGED <<sensors, usage, pc, failure>>
                   ELSE IF IsNone(Unwrap(ResultsOf(resp))[1].value)
                   THEN /\ Panic(EnvelopeKind(resp))
                        /\ UNCHANGED <<sensors, qi, counters>>
                   ELSE /\ usage' = [usage EXCEPT ![sensor.location] =
                               @ + Unwrap(Unwrap(ResultsOf(resp))[1].value)]
                        /\ sensors' = Some([Unwrap(sensors) EXCEPT
                               ![qi] = SensorAfterQuery(sensor, now')])
                        /\ queries' = [queries EXCEPT
                               ![sensor.id] = Some(window(
                                   Unwrap(Unwrap(ResultsOf(resp))[1].value)))]
                        /\ qi' = NextSensor(qi)
                        /\ UNCHANGED <<pc, failure>>

\* Downloader::query: the loop is over, or there is no sensor list.
QueryDone ==
    /\ Running
    /\ UNCHANGED fvars
    /\ pc = "query"
    /\ IsNone(sensors) \/ qi > Len(Unwrap(sensors))
    /\ pc' = StepAfter("query")
    /\ tick' = [tick EXCEPT !.completed = @ + 1]
    /\ envelope' = None
    /\ UNCHANGED <<now, creds, user_id, inventory, qi, counters, process, failure,
                   log>>

\* Downloader::start (lines 166-170): the time the next tick is due, given
\* when the last was due and when its fetch has finished: sleep(self.interval)
\* starts when the fetch has returned.
FixedRate(due, finished) == due + Interval
NextTickAt(due, finished) == finished + Interval

\* Downloader::start: sleep(self.interval) between two fetches (line 169); a
\* wait for a time that has passed returns at once.
Sleep ==
    /\ Running
    /\ UNCHANGED fvars
    /\ pc = "sleep"
    /\ LET due == NextTickAt(tick.due, now)
           start == IF due > now THEN due ELSE now
       IN  /\ tick.started <= MaxTime
           /\ now <= MaxTime
           /\ now' = start
           /\ tick' = [tick EXCEPT !.started = @ + 1, !.due = due,
                                   !.started_at = start]
    /\ pc' = "login"
    /\ log' = <<>>
    /\ envelope' = None
    /\ UNCHANGED <<creds, user_id, inventory, qi, counters, process, failure>>

\* error_tx.send(e).await in extract_body and deserialize: waits for room in
\* the channel; the None returned next is unwrapped and the task panics.
SendError ==
    /\ Running
    /\ UNCHANGED <<fvars, tick>>
    /\ pc = "send_err"
    /\ Len(chan) < ChannelCapacity
    /\ chan' = Append(chan, Unwrap(failure))
    /\ error_sent' = TRUE
    /\ pc' = "panicked"
    /\ envelope' = None
    /\ UNCHANGED <<now, creds, user_id, inventory, qi, counters, main_pc,
                   exit_code, exporter_pc, failure, log>>

\* ------------------------------------------------------ main.rs, exporter.rs

\* wait_for_error (main.rs lines 76-85): the exit code for the error received.
ExitCodeByError(error) == IF error = "server" THEN 1 ELSE 2
wait_for_error(error) == 1

\* wait_for_error and std::process::exit (main.rs lines 71-85).
WaitForError ==
    /\ Running
    /\ UNCHANGED <<fvars, tick>>
    /\ chan # <<>>
    /\ chan' = Tail(chan)
    /\ main_pc' = "exited"
    /\ exit_code' = Some(wait_for_error(Head(chan)))
    /\ UNCHANGED <<now, pc, creds, user_id, inventory, qi, counters, exporter_pc,
                   error_sent, failure, log, envelope>>

\* Exporter::run (exporter.rs lines 37-54): Server::run fails and the error
\* is sent on the channel.
ExporterFailed ==
    /\ Running
    /\ UNCHANGED <<fvars, tick>>
    /\ exporter_pc = "serving"
    /\ Len(chan) < ChannelCapacity
    /\ chan' = Append(chan, "server")
    /\ exporter_pc' = "done"
    /\ UNCHANGED <<now, pc, creds, user_id, inventory, qi, counters, main_pc,
                   exit_code, error_sent, failure, log, envelope>>

Next ==
    \/ LoginGrant
    \/ LoginRefresh
    \/ LoginMe
    \/ Devices
    \/ QuerySensor
    \/ QueryDone
    \/ Sleep
    \/ SendError
    \/ WaitForError
    \/ ExporterFailed

Spec == Init /\ [][Next]_vars

\* The steps of the poller task (downloader.rs lines 164-172): one task, whose
\* steps follow one another.
Poller ==
    \/ LoginGrant
    \/ LoginRefresh
    \/ LoginMe
    \/ Devices
    \/ QuerySensor
    \/ QueryDone
    \/ Sleep
    \/ SendError

\* The runtime of tokio schedules every task that can take a step: the poller
\* task, and main in wait_for_error once an error is in the channel.  Nothing
\* makes the metrics server fail.
LiveSpec == Spec /\ WF_vars(Poller) /\ WF_vars(WaitForError)

\* ------------------------------------------------------------ the poller

\* The sensors held, as a sequence (none before the first inventory).
Held(ss) == IF IsSome(ss) THEN Unwrap(ss) ELSE <<>>
HeldIds(ss) == [i \in DOMAIN Held(ss) |-> Held(ss)[i].id]

\* The watermarks (instants) the sensors of an id are held with.
Watermarks(ss, id) ==
    {Held(ss)[i].last_update.instant : i \in {j \in DOMAIN Held(ss) : Held(ss)[j].id = id}}

\* The wire sensors of a device list, in order.
RECURSIVE ListedSensors(_)
ListedSensors(data) ==
    IF data = <<>> THEN <<>>
    ELSE IF Head(data).tag = "device" /\ Head(data).type = SENSOR_ID
         THEN <<Head(data)>> \o ListedSensors(Tail(data))
         ELSE ListedSensors(Tail(data))
ListedIds(data) == [i \in DOMAIN ListedSensors(data) |-> ListedSensors(data)[i].id]

\* A query of the sensor id has returned in this step.
Queried(id) == queries'[id] # queries[id]

\* C1: over every tick, inventory refreshes that list a known sensor again
\* included, the watermark of a sensor id never decreases.
C1_WatermarkNeverDecreases ==
    [][\A id \in SensorIds :
          \A before \in Watermarks(sensors, id), after \in Watermarks(sensors', id) :
              after >= before]_vars

\* C2: of two consecutive queries of a sensor that returned, the second
\* starts where the first ended and ends at the time of its own tick.
C2_WindowsContiguous ==
    [][\A id \in SensorIds :
          (Queried(id) /\ IsSome(queries[id])) =>
              /\ Unwrap(queries'[id]).since = Unwrap(queries[id]).until
              /\ Unwrap(queries'[id]).until = now]_vars

\* C3: a query that returns an empty result array adds 0 to the usage counter
\* and advances the watermark of its sensor to the end of the window.
C3_EmptyResultAdvances ==
    [][\A id \in SensorIds :
          (Queried(id) /\ Unwrap(queries'[id]).volume = 0) =>
              /\ usage' = usage
              /\ Watermarks(sensors', id) = {Unwrap(queries'[id]).until}]_vars

\* C4: a transport error in any phase of a tick leaves the poller task alive
\* and puts no error on the channel that ends the process.
C4_TransportKeepsPolling ==
    failure = Some("transport") => (pc \notin {"send_err", "panicked"} /\ ~error_sent)

\* C5: a shape or application error in any phase of a tick reaches the error
\* channel: the poller never stops on one with the process left running.
C5_ShapeErrorHalts ==
    (pc = "panicked" /\ failure \in {Some("shape"), Some("application")})
        => error_sent

\* C6: after an inventory refresh the sensors held are exactly the sensors of
\* the device list fetched, and no other sensor is queried afterwards.
C6_InventoryReplaced ==
    IsSome(fetched) =>
        /\ HeldIds(sensors) = ListedIds(Unwrap(fetched))
        /\ \A id \in queried : \E i \in DOMAIN ListedIds(Unwrap(fetched)) :
               ListedIds(Unwrap(fetched))[i] = id

\* A sensor that was queried is gone from the list of a later refresh, and
\* the queries of that tick are over.
C6_Witness ==
    /\ IsSome(fetched)
    /\ pc = "sleep"
    /\ queried = {"s1"}
    /\ IsSome(queries["s2"])
    /\ HeldIds(sensors) = <<"s1">>

\* C9: a battery level that is none of high, medium and low is gauged as 0
\* and never stops the inventory refresh or the poller.
C9_UnknownBatteryIsZero ==
    /\ failure # Some("battery")
    /\ \A i \in DOMAIN Held(sensors) :
           IsSome(sensor_battery[Held(sensors)[i].location])

\* The last-seen instant the device list fetched reports for a sensor id.
FetchedLastSeen(id) ==
    LET listed == ListedSensors(Unwrap(fetched))
        at == CHOOSE i \in DOMAIN listed :
                  listed[i].id = id /\ \A j \in 1..(i - 1) : listed[j].id # id
    IN  ParseRfc3339(listed[at].last_seen)

\* C10: the first query of a sensor an inventory refresh has discovered starts
\* at the last-seen time the upstream reported and ends at the time of the tick.
C10_FirstWindow ==
    \A id \in queried :
        (IsSome(queries[id]) /\ Unwrap(queries[id]).first) =>
            /\ Unwrap(queries[id]).since = FetchedLastSeen(id)
            /\ Unwrap(queries[id]).until = devices_last_update

\* The scenario: discovered at 0 with a last-seen time an hour before, in a
\* zone that is not UTC; the first query has returned.
C10_Witness ==
    /\ "s1" \in queried
    /\ IsSome(queries["s1"])
    /\ Unwrap(queries["s1"]).first
    /\ Unwrap(queries["s1"]).since = 0 - OneHour
    /\ Unwrap(queries["s1"]).until = 0
    /\ Held(sensors)[1].last_update.tz = "America/Los_Angeles"

\* A request of this name goes out in this step.
Issues(request) ==
    /\ Len(log') = Len(log) + 1
    /\ log'[Len(log')].request = request

\* The requests of this name in the log of the tick.
Requests(request) == SelectSeq(log, LAMBDA r : r.request = request)

\* C11: once the identity has been fetched the cached user_id never changes
\* and no /me request goes out again, on this tick or a later one.
C11_IdentityResolvedOnce ==
    [][IsSome(user_id) => (user_id' = user_id /\ ~Issues("me"))]_vars

\* A later tick has passed the identity step with the cached id and without
\* a /me request.
C11_Witness ==
    /\ now >= Interval
    /\ pc = "devices"
    /\ user_id = Some(7)
    /\ Requests("me") = <<>>

\* C12: an error of the poller is forwarded to the error channel exactly when
\* it is no transport error, whichever request failed.
C12_ErrorsClassified ==
    IsSome(failure) =>
        ((pc = "send_err" \/ error_sent) <=> failure # Some("transport"))

\* C13: within a tick no inventory request follows a usage query, and every
\* usage query of the tick is of a sensor held after the inventory step.
C13_InventoryBeforeQueries ==
    /\ \A i, j \in DOMAIN log :
           (i < j /\ log[i].request = "query") => log[j].request # "devices"
    /\ \A i \in DOMAIN log :
           log[i].request = "query" =>
               \E k \in DOMAIN HeldIds(sensors) : HeldIds(sensors)[k] = log[i].sensor
    /\ pc = "query" => DevicesStale(now, devices_last_update) = FALSE

\* A tick after the first has refreshed the inventory, which dropped a
\* sensor, and has then queried the sensor that is left.
C13_Witness ==
    /\ now >= OneHour
    /\ pc = "sleep"
    /\ Requests("devices") # <<>>
    /\ Requests("query") # <<>>
    /\ IsSome(queries["s2"])
    /\ HeldIds(sensors) = <<"s1">>

\* C14: the inventory step of a tick fetches the device list exactly when no
\* inventory refresh has succeeded yet or device_interval has elapsed since
\* the last one that succeeded.
C14_InventoryWhenStale ==
    [][(pc = "devices" /\ pc' # pc /\ IsSome(user_id)) =>
          (Issues("devices") <=>
              (IsNone(fetched) \/ now - devices_last_update >= DeviceInterval))]_vars

\* C15: a tick on which no budget refresh has happened yet, or on which
\* budget_interval has elapsed since the last, fetches the budgets of every
\* sensor held.  (No budget request appears in any log, so every tick is one
\* on which no budget refresh has happened yet.)
C15_BudgetsWhenStale ==
    pc = "sleep" =>
        \A k \in DOMAIN HeldIds(sensors) :
            \E i \in DOMAIN log :
                log[i].request = "budgets" /\ log[i].sensor = HeldIds(sensors)[k]

\* The sensor ids of the usage queries of the tick, in the order issued.
QueriedInOrder == [i \in DOMAIN Requests("query") |-> Requests("query")[i].sensor]

\* C16: at the end of a tick in which no call failed, exactly one usage query
\* has gone out for each sensor held, in the order of the sensor list.
C16_OneQueryPerSensor ==
    pc = "sleep" => QueriedInOrder = HeldIds(sensors)

\* A tick has ended with two sensors held and queried in list order.
C16_Witness ==
    /\ pc = "sleep"
    /\ HeldIds(sensors) = <<"s2", "s1">>
    /\ QueriedInOrder = <<"s2", "s1">>

\* C21: a tick that overran the period queues no catch-up ticks: the ticks
\* started never exceed the ticks completed by more than one, and a tick
\* starts no sooner than a full period after the start of the tick before it.
C21_NoCatchUpTicks ==
    [][/\ tick.started - tick.completed \in {0, 1}
       /\ tick'.started # tick.started =>
              /\ tick.started = tick.completed
              /\ tick'.started = tick.started + 1
              /\ tick'.started_at >= tick.started_at + Interval
              /\ tick'.started_at >= now]_vars

\* The first tick overran the period, the tick due meanwhile was skipped and
\* the second tick, started a period after the first had ended, is over.
C21_Witness ==
    /\ tick.started = 2
    /\ tick.completed = 2
    /\ tick.started_at = OneHour + Interval

\* C22: the channel never holds more than one error; the process exits, with
\* status 1, in the step that receives one error from it and in no other; an
\* error in the channel can always be received, whoever else waits to send;
\* and once set the exit code never changes.
C22_FirstErrorExits ==
    [][/\ Len(chan) <= ChannelCapacity
       /\ exit_code \in {None, Some(1)}
       /\ (main_pc = "exited") <=> (exit_code = Some(1))
       /\ (main_pc = "waiting" /\ chan # <<>>) => ENABLED WaitForError
       /\ main_pc' # main_pc =>
              /\ main_pc = "waiting"
              /\ Len(chan) = 1
              /\ chan' = <<>>
              /\ exit_code' = Some(1)
       /\ main_pc = "exited" => exit_code' = exit_code]_vars

\* The process has exited on the error of the metrics server while the poller
\* waits to send an error of its own.
C22_Witness ==
    /\ main_pc = "exited"
    /\ exit_code = Some(1)
    /\ exporter_pc = "done"
    /\ pc = "send_err"
    /\ chan = <<>>

\* C23: a device record whose type tag is neither 1 nor 2 fails the inventory
\* refresh with an error that is reported on the error channel: the poller
\* task does not end in a panic with nothing reported.
C23_UnknownTypeIsError ==
    failure = Some("device_type") => (pc = "send_err" \/ error_sent)

\* C25: a request of the poller that is answered by an envelope with
\* success = false fails with an application error, whatever data the envelope
\* carries, and leaves the credential, the identity, the sensor set with its
\* watermarks and the usage counter as they were.
C25_FailedEnvelopeUnused ==
    [][(envelope' = Some(FALSE) /\ Len(log') = Len(log) + 1) =>
          /\ failure' = Some("application")
          /\ UNCHANGED <<creds, user_id, sensors, usage, queries>>]_vars

\* A usage query of the sensor id has gone out in this step and has returned
\* without a failure.
QueryReturned(id) ==
    /\ Issues("query")
    /\ log'[Len(log')].sensor = id
    /\ failure' = failure

\* C26: the usage counter of a location never decreases and changes only in
\* the step of a usage query of its sensor that succeeds, which adds the
\* volume returned once and advances the watermark of the sensor to the time
\* of the query.
C26_UsageIsSumOfVolumes ==
    [][/\ \A l \in Locations : usage'[l] >= usage[l]
       /\ usage' # usage => \E id \in SensorIds : QueryReturned(id)
       /\ \A id \in SensorIds :
              QueryReturned(id) =>
                  /\ usage' = [usage EXCEPT ![LocationOf(id)] =
                                   @ + Unwrap(queries'[id]).volume]
                  /\ Watermarks(sensors', id) = {now'}]_vars

\* C27: a sensor record without a location, with a timezone that is no known
\* zone or with a last-seen time that is no RFC3339 string fails the
\* conversion with an error that is reported, not a panic; and every sensor
\* held has a location and the zone of its record, which is a known zone.
C27_ConversionFailsWithError ==
    /\ failure = Some("domain") => (pc = "send_err" \/ error_sent)
    /\ IsSome(fetched) =>
           \A i \in DOMAIN ListedSensors(Unwrap(fetched)) :
               /\ ListedSensors(Unwrap(fetched))[i].located
               /\ ListedSensors(Unwrap(fetched))[i].tz \in TzNames
               /\ Held(sensors)[i].last_update.tz =
                      ListedSensors(Unwrap(fetched))[i].tz

\* A usage query of the sensor id has gone out in this step and has failed:
\* on the request, on its body, or on an envelope with success = false.
QueryFailed(id) ==
    /\ Issues("query")
    /\ log'[Len(log')].sensor = id
    /\ failure' # failure \/ envelope' = Some(FALSE)

\* C28: a usage query that fails leaves the watermark of its sensor and the
\* usage counter as they were and the poller running, so that the next tick
\* queries the sensor again from the same watermark.
C28_FailedQueryChangesNothing ==
    [][\A id \in SensorIds :
          QueryFailed(id) =>
              /\ usage' = usage
              /\ sensors' = sensors
              /\ pc' \notin {"send_err", "panicked"}]_vars

\* An inventory refresh has gone out in this step and has failed: on the
\* request, on its body, on an envelope with success = false, or on the
\* conversion of a record of the device list.
RefreshFailed ==
    /\ Issues("devices")
    /\ failure' # failure \/ envelope' = Some(FALSE)

\* C29: an inventory refresh that fails leaves the sensor set and the time of
\* the last refresh as they were and the poller running, so that the
\* inventory is still stale and is fetched again on the next tick.
C29_FailedRefreshChangesNothing ==
    [][RefreshFailed =>
          /\ sensors' = sensors
          /\ devices_last_update' = devices_last_update
          /\ DevicesStale(now', devices_last_update')
          /\ pc' \notin {"send_err", "panicked"}]_vars

\* A devices, usage or budgets request.
NeedsIdentity(request) == request \in {"devices", "query", "budgets"}

\* C30: a devices, usage or budgets request goes out only while an access
\* token is held and user_id is set, and neither changes while it is awaited;
\* while either is missing no such request has gone out.
C30_NoRequestWithoutIdentity ==
    [][/\ (IsNone(access_token) \/ IsNone(user_id)) =>
              \A i \in DOMAIN log : ~NeedsIdentity(log[i].request)
       /\ (Len(log') = Len(log) + 1 /\ NeedsIdentity(log'[Len(log')].request)) =>
              /\ IsSome(access_token)
              /\ IsSome(user_id)
              /\ access_token' = access_token
              /\ user_id' = user_id]_vars

\* The first tick has made the password grant, fetched the identity and the
\* inventory and queried two sensors.
C30_Witness ==
    /\ Requests("grant") # <<>>
    /\ Requests("me") # <<>>
    /\ Requests("devices") # <<>>
    /\ Len(Requests("query")) = 2
    /\ IsSome(access_token)
    /\ user_id = Some(7)

\* The ids of the bridges of the device lists.
BridgeIds == {WireBridge.id}

\* C31: the sensor set holds only devices of type sensor and every usage
\* query or budget fetch is of one of them; an inventory refresh sets the
\* bridge gauges of exactly the bridges it lists, leaves the sensor gauges
\* to the sensors it lists, and keeps no bridge.
C31_OnlySensorsHeld ==
    [][/\ \A i \in DOMAIN Held(sensors) :
              Held(sensors)[i].id \in SensorIds \ BridgeIds
       /\ \A i \in DOMAIN log :
              log[i].request \in {"query", "budgets"} =>
                  log[i].sensor \in SensorIds \ BridgeIds
       /\ queried \cap BridgeIds = {}
       /\ (Issues("devices") /\ fetched' # fetched) =>
              /\ Len(Held(sensors')) = Len(ListedSensors(Unwrap(fetched')))
              /\ \A l \in Locations :
                     bridge_product'[l] # bridge_product[l] =>
                         \E i \in DOMAIN Unwrap(fetched') :
                             /\ Unwrap(fetched')[i].type = BRIDGE_ID
                             /\ LocationOf(Unwrap(fetched')[i].id) = l
              /\ ListedSensors(Unwrap(fetched')) = <<>> =>
                     sensor_battery' = sensor_battery
       /\ ~Issues("devices") => bridge_product' = bridge_product]_vars

\* A refresh has listed a bridge and a sensor: the bridge gauge is set, the
\* sensor alone is held, and the tick has queried it and nothing else.
C31_Witness ==
    /\ pc = "sleep"
    /\ IsSome(fetched)
    /\ Len(Unwrap(fetched)) = 2
    /\ Unwrap(fetched)[1] = WireBridge
    /\ IsSome(bridge_product[LocationOf(WireBridge.id)])
    /\ HeldIds(sensors) = <<"s1">>
    /\ QueriedInOrder = <<"s1">>

\* The poller has reached the last tick of the model and sleeps after it.
Horizon == pc = "sleep" /\ (tick.started > MaxTime \/ now > MaxTime)

\* The sensor id is held.
IsHeld(id) == \E i \in DOMAIN Held(sensors) : Held(sensors)[i].id = id

\* C32: unless the process exits on an error, ticks keep being executed, up
\* to the last tick of the model; and unless a request fails or the process
\* exits, a sensor held is eventually dropped from the sensor set or has its
\* watermark advanced to the time of the first tick or later.
C32_TicksAndWatermarksAdvance ==
    /\ <>(main_pc = "exited" \/ Horizon)
    /\ \A id \in SensorIds :
           IsHeld(id) ~>
               \/ main_pc = "exited"
               \/ IsSome(failure)
               \/ ~IsHeld(id)
               \/ \A w \in Watermarks(sensors, id) : w >= 0

\* ------------------------------------------------- client.rs: the requests

\* deserialize into Response (client.rs lines 504-519): data has to be an
\* array and every item of it one of the variants of Data.
Deserializes(resp) ==
    resp.array /\ \A i \in DOMAIN resp.data : resp.data[i].tag # "other"

\* json_from (client.rs lines 568-583): Err on a failed request, body or
\* deserialize and on success = false, else the envelope.
json_from(resp) ==
    IF resp.kind # "json" THEN [ok |-> FALSE, error |-> ErrorKind(resp)]
    ELSE IF ~Deserializes(resp) THEN [ok |-> FALSE, error |-> "protocol"]
    ELSE IF ~resp.success THEN [ok |-> FALSE, error |-> "application"]
    ELSE [ok |-> TRUE, error |-> ""]

\* What the upstream answers a grant or a refresh of the session with: as
\* for the poller, or an item that is a variant of Data but no token.
SessionTokenResponses(held) ==
    TokenResponses(held)
        \cup {Envelope(TRUE, TRUE, <<[tag |-> "user", id |-> u]>>) : u \in UserIds}

\* Client::access_token and Client::refresh_token after the post (lines
\* 329-338, 417-424): &response.data[0] panics on an empty array; a first item
\* that is no token is an error.
TokenResult(resp) ==
    IF ~json_from(resp).ok
    THEN [outcome |-> "err", error |-> json_from(resp).error, token |-> None]
    ELSE IF resp.data = <<>>
    THEN [outcome |-> "panic", error |-> "index", token |-> None]
    ELSE IF resp.data[1].tag # "token"
    THEN [outcome |-> "err", error |-> "shape", token |-> None]
    ELSE [outcome |-> "ok", error |-> "", token |-> Some(resp.data[1])]

\* The operations of the session and the item each expects in data.
Ops == {"budgets", "devices", "query_sensor", "user_id"}
Expected(name) ==
    CASE name = "budgets" -> "budget"
      [] name = "devices" -> "device"
      [] name = "query_sensor" -> "query_results"
      [] name = "user_id" -> "user"

\* What the upstream answers the delegated request of an operation with.
CallResponses(name) ==
    ResponsesWith({<<>>, <<OtherItem>>, <<[tag |-> Expected(name)]>>,
                   <<[tag |-> "token"]>>})

\* Client::budgets, devices, query_samples and user_id after the request
\* (lines 349-358, 380-398, 428-433): user_id and query_samples index
\* data[0]; budgets and devices map every item.
CallResult(name, resp) ==
    IF ~json_from(resp).ok THEN "err"
    ELSE IF resp.data = <<>>
    THEN IF name \in {"user_id", "query_sensor"} THEN "panic" ELSE "ok"
    ELSE IF \A i \in DOMAIN resp.data : resp.data[i].tag = Expected(name)
    THEN "ok" ELSE "err"

\* The error of an operation that returned one: that of json_from, or the
\* "Unexpected response type" of an item that is not the variant expected.
CallError(name, resp) ==
    IF ~json_from(resp).ok THEN json_from(resp).error
    ELSE IF CallResult(name, resp) = "err" THEN "shape" ELSE ""

\* What an operation of the client returned for the response it read.
Answered(request, resp, outcome, error) ==
    Some([request |-> request, response |-> resp, outcome |-> outcome,
          error |-> error])

\* ---------------------------------------------------------------- flume.rs

\* Instant::now().duration_since(self.token_fetch_time) < expiry is false
\* (flume.rs lines 81-85): the token has to be refreshed.
ExpiredAfter(t, token_fetch_time, token_expires_in) ==
    t - token_fetch_time > token_expires_in
ExpiredAlways(t, token_fetch_time, token_expires_in) == TRUE
Expired(t, token_fetch_time, token_expires_in) ==
    ~(t - token_fetch_time < token_expires_in)

\* The session with the token of a grant or a refresh started at fetch_time
\* (flume_builder.rs lines 22-35, flume.rs lines 87-92).
WithTokenKeepingRefresh(token, fetch_time) ==
    [access_token |-> token.access_token,
     refresh_token |-> IF IsSome(flume) THEN Unwrap(flume).refresh_token
                       ELSE token.refresh_token,
     token_expires_in |-> token.expires_in,
     token_fetch_time |-> fetch_time]
WithTokenKeepingTime(token, fetch_time) ==
    [access_token |-> token.access_token,
     refresh_token |-> token.refresh_token,
     token_expires_in |-> token.expires_in,
     token_fetch_time |-> IF IsSome(flume) THEN Unwrap(flume).token_fetch_time
                          ELSE fetch_time]
WithToken(token, fetch_time) ==
    [access_token |-> token.access_token,
     refresh_token |-> token.refresh_token,
     token_expires_in |-> token.expires_in,
     token_fetch_time |-> fetch_time]

Request(name, fetch_time, bearer) ==
    [request |-> name, token_fetch_time |-> fetch_time, bearer |-> bearer]

\* The requests awaited once a request has been sent, and once the response
\* of the one awaited longest has arrived.
Sent(request) == Append(inflight, request)
Returned == Tail(inflight)

\* A session operation can start: its caller holds the session (&mut self)
\* and awaits every operation before it starts the next.
IdleOrCalling(state) == state \in {"idle", "calling"}
Idle(state) == state = "idle"

\* The ? on the result of Client::refresh_token (flume.rs line 87): the error
\* the operation returns for the error the refresh returned.
Reworded(error) == "refresh"
Propagated(error) == error

\* The latest of the staleness checks, with the outcome of its refresh.
Checked(outcome, expires_in) ==
    [checks EXCEPT ![Len(checks)] =
        [@ EXCEPT !.outcome = outcome, !.expires_in = expires_in]]

\* FlumeBuilder::build: Client::access_token reads the clock and posts the
\* password grant (client.rs lines 312-327).
BuildSend ==
    /\ fpc = "build"
    /\ inflight' = Sent(Request("authenticate", clock, None))
    /\ fpc' = "building"
    /\ UNCHANGED <<clock, flume, op, checks, answer, dvars>>

\* FlumeBuilder::build: the grant returns; an Err ends main.
BuildReturn ==
    /\ fpc = "building"
    /\ \E resp \in SessionTokenResponses(None) :
       LET r == TokenResult(resp)
       IN  /\ flume' = IF r.outcome = "ok"
                       THEN Some(WithToken(Unwrap(r.token),
                                           Unwrap(inflight).token_fetch_time))
                       ELSE None
           /\ fpc' = CASE r.outcome = "ok" -> "idle"
                       [] r.outcome = "err" -> "exited"
                       [] OTHER -> "panicked"
           /\ answer' = Answered("authenticate", resp, r.outcome, r.error)
    /\ inflight' = Returned
    /\ UNCHANGED <<clock, op, checks, dvars>>

\* A session operation starts (Flume::budgets, devices, query_sensor, user_id):
\* refresh_token_if_expired either finds the token fresh, and the delegated
\* request goes out with it, or posts a refresh (flume.rs lines 79-87).
StartOp(name) ==
    /\ Idle(fpc)
    /\ LET f == Unwrap(flume)
           expired == Expired(clock, f.token_fetch_time, f.token_expires_in)
       IN  /\ op' = Some([name |-> name, started |-> clock,
                          issued_at |-> f.token_fetch_time,
                          expires_in |-> f.token_expires_in,
                          held |-> f.access_token,
                          refresh_calls |-> IF expired THEN 1 ELSE 0,
                          fresh |-> None,
                          used |-> IF expired THEN None ELSE Some(f.access_token),
                          calls |-> IF expired THEN 0 ELSE 1,
                          refresh_error |-> "", error |-> "",
                          result |-> "pending"])
           /\ checks' = (IF Len(checks) < 2 THEN checks ELSE Tail(checks))
                  \o <<[at |-> clock, refreshed |-> expired,
                        outcome |-> "pending", expires_in |-> 0]>>
           /\ IF expired
              THEN /\ inflight' = Sent(Request("refresh token", clock, None))
                   /\ fpc' = "refreshing"
              ELSE /\ inflight' = Sent(Request(name, f.token_fetch_time,
                                               Some(f.access_token)))
                   /\ fpc' = "calling"
    /\ UNCHANGED <<clock, flume, answer, dvars>>

\* refresh_token_if_expired, the refresh returns (flume.rs lines 87-94): an
\* error is the result of the operation; a token replaces the credential and
\* the delegated request goes out with it.
RefreshReturn ==
    /\ fpc = "refreshing"
    /\ \E resp \in SessionTokenResponses(Some(Unwrap(flume).access_token)) :
       LET r == TokenResult(resp)
       IN  /\ answer' = Answered("refresh token", resp, r.outcome, r.error)
           /\ IF r.outcome = "ok"
              THEN /\ flume' = Some(WithToken(Unwrap(r.token),
                                              Unwrap(inflight).token_fetch_time))
                   /\ inflight' = Append(Returned,
                                          Request(Unwrap(op).name,
                                                  Unwrap(flume').token_fetch_time,
                                                  Some(Unwrap(flume').access_token)))
                   /\ op' = Some([Unwrap(op) EXCEPT
                                  !.fresh = Some(Unwrap(r.token).access_token),
                                  !.used = Some(Unwrap(flume').access_token),
                                  !.calls = @ + 1])
                   /\ checks' = Checked("ok", Unwrap(r.token).expires_in)
                   /\ fpc' = "calling"
              ELSE /\ op' = Some([Unwrap(op) EXCEPT
                                  !.result = r.outcome,
                                  !.refresh_error =
                                      IF r.outcome = "err" THEN r.error ELSE "",
                                  !.error =
                                      IF r.outcome = "err" THEN Propagated(r.error)
                                      ELSE ""])
                   /\ checks' = Checked(r.outcome, 0)
                   /\ inflight' = Returned
                   /\ fpc' = IF r.outcome = "err" THEN "idle" ELSE "panicked"
                   /\ UNCHANGED flume
    /\ UNCHANGED <<clock, dvars>>

\* The delegated request of the operation returns.
CallReturn ==
    /\ fpc = "calling"
    /\ \E resp \in CallResponses(Unwrap(op).name) :
       LET r == CallResult(Unwrap(op).name, resp)
       IN  /\ op' = Some([Unwrap(op) EXCEPT !.result = r])
           /\ answer' = Answered(Unwrap(op).name, resp, r,
                                 CallError(Unwrap(op).name, resp))
           /\ fpc' = IF r = "panic" THEN "panicked" ELSE "idle"
    /\ inflight' = Returned
    /\ UNCHANGED <<clock, flume, checks, dvars>>

\* Time passes, also while a request is awaited.
Elapse ==
    /\ fpc \notin {"exited", "panicked"}
    /\ clock < MaxClock
    /\ clock' = clock + 1
    /\ UNCHANGED <<fpc, flume, inflight, op, checks, answer, dvars>>

FlumeNext ==
    \/ BuildSend
    \/ BuildReturn
    \/ \E name \in Ops : StartOp(name)
    \/ RefreshReturn
    \/ CallReturn
    \/ Elapse

FlumeSpec == Init /\ [][FlumeNext]_vars

\* ------------------------------------------- properties of the session

\* The item an operation of the client expects first in data.
ExpectedItem(request) ==
    IF request \in {"authenticate", "refresh token"} THEN "token"
    ELSE Expected(request)

\* A well-formed success envelope whose data lacks the expected variant.
LacksVariant(request, resp) ==
    /\ resp.kind = "json"
    /\ resp.success
    /\ Deserializes(resp)
    /\ resp.data = <<>> \/ resp.data[1].tag # ExpectedItem(request)

\* C24: an operation of the client that reads a well-formed success envelope
\* whose data lacks the expected variant, an empty data array included,
\* returns a shape error: it neither panics nor returns a value.
C24_MissingVariantIsShapeError ==
    (IsSome(answer) /\ LacksVariant(Unwrap(answer).request, Unwrap(answer).response))
        => (Unwrap(answer).outcome = "err" /\ Unwrap(answer).error = "shape")


\* C7: an operation started at t with t - issued_at < expires_in issues no
\* refresh call and its delegated call uses the token held; one started with
\* t - issued_at >= expires_in issues exactly one refresh call, and a
\* delegated call that follows uses the access token the refresh returned.
C7_RefreshWhenExpired ==
    IsSome(op) =>
        LET o == Unwrap(op)
        IN  IF o.started - o.issued_at < o.expires_in
            THEN /\ o.refresh_calls = 0
                 /\ o.used = Some(o.held)
                 /\ IsNone(o.fresh)
            ELSE /\ o.refresh_calls = 1
                 /\ IsSome(o.used) => (IsSome(o.fresh) /\ o.used = o.fresh)
                 /\ fpc = "calling" =>
                        /\ IsSome(o.used)
                        /\ Unwrap(inflight).bearer = o.fresh
                        /\ Unwrap(flume).access_token = Unwrap(o.fresh)

\* An operation started exactly when the lifetime was over refreshed the
\* token and its delegated call returned with the new token.
C7_Witness ==
    /\ IsSome(op)
    /\ Unwrap(op).started - Unwrap(op).issued_at = Unwrap(op).expires_in
    /\ Unwrap(op).expires_in = OneHour
    /\ Unwrap(op).refresh_calls = 1
    /\ IsSome(Unwrap(op).used)
    /\ Unwrap(op).used # Some(Unwrap(op).held)
    /\ Unwrap(op).result = "ok"
    /\ fpc = "idle"

\* Two staleness checks one after the other with no time between them.
SameInstant == Len(checks) = 2 /\ checks[1].at = checks[2].at

\* C8 as stated: two consecutive staleness checks with no time elapsing
\* between them perform at most one refresh call in total, whatever the
\* credential and whatever expires_in the upstream returned.
C8_AtMostOneRefresh ==
    SameInstant => ~(checks[1].refreshed /\ checks[2].refreshed)

\* C8 amended: two consecutive staleness checks with no time elapsing between
\* them perform at most one refresh call in total, provided the refresh of the
\* first check, if there was one, succeeded and returned an expires_in of at
\* least one.
C8_AtMostOneRefreshWhenRenewed ==
    (/\ SameInstant
     /\ checks[1].refreshed => (checks[1].outcome = "ok"
                                /\ checks[1].expires_in >= 1))
    => ~(checks[1].refreshed /\ checks[2].refreshed)

\* The first check refreshed an expired token, the second, at the same
\* instant, found the new token fresh.
C8_Witness ==
    /\ SameInstant
    /\ checks[1].refreshed
    /\ checks[1].outcome = "ok"
    /\ checks[1].expires_in >= 1
    /\ ~checks[2].refreshed
    /\ checks[1].at >= OneHour

\* The refresh requests among the requests awaited.
RefreshesIn(requests) ==
    SelectSeq(requests, LAMBDA r : r.request = "refresh token")

\* C17: at most one upstream request is in flight at any time, and so never
\* two credential refresh calls.
C17_OneRequestInFlight ==
    /\ Len(inflight) <= 1
    /\ Len(RefreshesIn(inflight)) <= 1
    /\ fpc \in {"building", "refreshing", "calling"} => Len(inflight) = 1

\* A refresh is the one request in flight while time has passed since the
\* operation started it.
C17_Witness ==
    /\ Len(RefreshesIn(inflight)) = 1
    /\ fpc = "refreshing"
    /\ clock > Unwrap(op).started

\* A refresh has returned a token in this step.
RefreshSucceeds == fpc = "refreshing" /\ fpc' = "calling"

\* C18: a refresh that fails leaves the four fields of the credential as they
\* were; one that succeeds replaces all four by the values of the new token
\* and the time the refresh was started; the credential is never absent and
\* never a mix of old and new fields.
C18_CredentialReplacedAtomically ==
    [][IsSome(flume) =>
          /\ IsSome(flume')
          /\ IF RefreshSucceeds
             THEN LET old == Unwrap(flume)
                      new == Unwrap(flume')
                  IN  /\ Some(new.access_token) = Unwrap(op').fresh
                      /\ new.access_token # old.access_token
                      /\ new.refresh_token = RefreshOf(new.access_token)
                      /\ new.refresh_token # old.refresh_token
                      /\ new.token_expires_in = checks'[Len(checks')].expires_in
                      /\ new.token_fetch_time = Head(inflight).token_fetch_time
             ELSE flume' = flume]_vars

\* A refresh has failed with the credential kept, after an earlier refresh
\* had replaced the credential of the grant.
C18_Witness ==
    /\ IsSome(op)
    /\ Unwrap(op).refresh_error # ""
    /\ Unwrap(flume).token_fetch_time > 0
    /\ Unwrap(flume).access_token = Unwrap(op).held

\* C19: when the refresh of an expired credential returns an error, the
\* session operation returns that same error, has issued that one refresh
\* call only and issues no delegated call.
C19_RefreshFailurePropagates ==
    (IsSome(op) /\ Unwrap(op).refresh_error # "") =>
        /\ Unwrap(op).result = "err"
        /\ Unwrap(op).error = Unwrap(op).refresh_error
        /\ Unwrap(op).refresh_calls = 1
        /\ Unwrap(op).calls = 0
        /\ IsNone(Unwrap(op).used)
        /\ inflight = <<>>
        /\ fpc = "idle"

\* The refresh of a query_sensor operation has failed on success = false.
C19_Witness ==
    /\ IsSome(op)
    /\ Unwrap(op).name = "query_sensor"
    /\ Unwrap(op).refresh_error = "application"
    /\ Unwrap(op).result = "err"

\* A refresh request goes out in this step.
RefreshIssued == Len(RefreshesIn(inflight')) > Len(RefreshesIn(inflight))

\* C20: a refresh goes out only as the first step of a session operation
\* that starts with the credential expired; the passing of time alone sends
\* no refresh and leaves the credential, expired or not, as it is.
C20_RefreshOnlyOnUse ==
    [][/\ RefreshIssued =>
              /\ fpc = "idle"
              /\ clock' = clock
              /\ Unwrap(op').started = clock
              /\ Unwrap(op').result = "pending"
              /\ Unwrap(op').calls = 0
              /\ clock - Unwrap(flume).token_fetch_time
                     >= Unwrap(flume).token_expires_in
       /\ clock' # clock => (~RefreshIssued /\ flume' = flume)]_vars

\* The credential has been expired for some time with no operation started,
\* and is still the credential of the grant.
C20_Witness ==
    /\ fpc = "idle"
    /\ IsNone(op)
    /\ inflight = <<>>
    /\ Unwrap(flume).token_expires_in = OneHour
    /\ clock - Unwrap(flume).token_fetch_time > OneHour

====
